---- MODULE Spec2Model ----
(***************************************************************************)
(* Model of the GA4 check endpoint, src/src/app/api/check/route.ts (the    *)
(* last POST handler of the file, lines 310-643), with the loader-script   *)
(* heuristic of the earlier revision in src/unnamed/part_000.              *)
(*                                                                         *)
(* Texts (the request's url, the page's HTML, a GTM container script) are  *)
(* sequences of one-character strings, so that trimming, prefix tests, URL *)
(* parsing, the identifier patterns and base64 decoding are computed on    *)
(* the characters as the code computes them.                               *)
(***************************************************************************)
EXTENDS Integers, Sequences, FiniteSets, TLC

(***************************************************************************)
(* Bounds of the model.                                                    *)
(***************************************************************************)
\* Number of requests the endpoint serves in one behaviour (they may overlap).
NumReqs == 2
Reqs == 1..NumReqs

(***************************************************************************)
(* Characters and text helpers.                                            *)
(***************************************************************************)
LowerSeq == <<"a","b","c","d","e","f","g","h","i","j","k","l","m",
              "n","o","p","q","r","s","t","u","v","w","x","y","z">>
UpperSeq == <<"A","B","C","D","E","F","G","H","I","J","K","L","M",
              "N","O","P","Q","R","S","T","U","V","W","X","Y","Z">>
DigitSeq == <<"0","1","2","3","4","5","6","7","8","9">>

Range(s) == { s[i] : i \in DOMAIN s }

Lower == Range(LowerSeq)
Upper == Range(UpperSeq)
Digit == Range(DigitSeq)
Alpha == Lower \cup Upper
AlNum == Alpha \cup Digit
\* [A-Z0-9]
UpperDigit == Upper \cup Digit
\* whitespace removed by String.prototype.trim (of the characters the inputs use)
Space == {" "}

IndexIn(seq, c) == CHOOSE i \in DOMAIN seq : seq[i] = c

\* String.prototype.toLowerCase on one character
ToLowerChar(c) == IF c \in Upper THEN LowerSeq[IndexIn(UpperSeq, c)] ELSE c

ToLower(s) == [i \in DOMAIN s |-> ToLowerChar(s[i])]

\* s.substring(i - 1): the text from position i (1-based) to the end
From(s, i) == SubSeq(s, i, Len(s))

\* whether p occurs in s at position i (1-based)
OccursAt(s, p, i) ==
    /\ i >= 1
    /\ i + Len(p) - 1 <= Len(s)
    /\ \A k \in 1..Len(p) : s[i + k - 1] = p[k]

\* String.prototype.startsWith
StartsWith(s, p) == OccursAt(s, p, 1)

\* String.prototype.includes
Includes(s, p) == \E i \in 1..(Len(s) + 1) : OccursAt(s, p, i)

RECURSIVE TrimLeft(_)
TrimLeft(s) ==
    IF s # <<>> /\ Head(s) \in Space THEN TrimLeft(Tail(s)) ELSE s

RECURSIVE TrimRight(_)
TrimRight(s) ==
    IF s # <<>> /\ s[Len(s)] \in Space
    THEN TrimRight(SubSeq(s, 1, Len(s) - 1))
    ELSE s

\* String.prototype.trim
Trim(s) == TrimRight(TrimLeft(s))

\* the length of the longest prefix of s whose characters are all in class
RECURSIVE RunLen(_, _)
RunLen(s, class) ==
    IF s # <<>> /\ Head(s) \in class THEN 1 + RunLen(Tail(s), class) ELSE 0

\* the first position >= i of s holding a character of class, or Len(s) + 1
RECURSIVE FindChar(_, _, _)
FindChar(s, class, i) ==
    IF i > Len(s) THEN Len(s) + 1
    ELSE IF s[i] \in class THEN i
    ELSE FindChar(s, class, i + 1)

\* decimal digits to a number and back (a port's serialisation)
RECURSIVE DigitsToNat(_)
DigitsToNat(s) ==
    IF s = <<>> THEN 0
    ELSE 10 * DigitsToNat(SubSeq(s, 1, Len(s) - 1))
         + (IndexIn(DigitSeq, s[Len(s)]) - 1)

RECURSIVE NatToDigits(_)
NatToDigits(n) ==
    IF n < 10 THEN <<DigitSeq[n + 1]>>
    ELSE NatToDigits(n \div 10) \o <<DigitSeq[(n % 10) + 1]>>

(***************************************************************************)
(* new URL(text) and its origin, for texts over letters, digits and the    *)
(* characters . - + : / ? # = and space, whose host (when it has one) ends *)
(* in a label that is not a number.                                        *)
(***************************************************************************)
S_http == <<"h","t","t","p">>
S_https == <<"h","t","t","p","s">>
S_httpsPrefix == <<"h","t","t","p","s",":","/","/">>
S_httpPrefix == <<"h","t","t","p",":","/","/">>
S_sep == <<":","/","/">>
S_null == <<"n","u","l","l">>

SchemeChar == AlNum \cup {"+", "-", "."}
HostChar == AlNum \cup {".", "-"}
AuthorityEnd == {"/", "?", "#"}

DefaultPort(scheme) == IF scheme = S_http THEN 80 ELSE 443

UrlFailure == [ok |-> FALSE]

\* the path of what follows the authority: all of it before the first ? or #
PathOf(tail) == SubSeq(tail, 1, FindChar(tail, {"?", "#"}, 1) - 1)

\* the query of what follows the authority: after the first ?, before the first #
SearchOf(tail) ==
    LET hash == FindChar(tail, {"#"}, 1)
        q    == FindChar(tail, {"?"}, 1)
    IN  IF q < hash THEN SubSeq(tail, q + 1, hash - 1) ELSE <<>>

\* the host and port of an authority text (all of it before the first / ? #),
\* the path and query of the tail that follows it
ParseAuthority(auth, tail, scheme, special) ==
    LET colon == FindChar(auth, {":"}, 1)
        host  == SubSeq(auth, 1, colon - 1)
        port  == From(auth, colon + 1)
    IN  IF \E i \in DOMAIN host : host[i] \notin HostChar THEN UrlFailure
        ELSE IF host = <<>> /\ (special \/ colon <= Len(auth)) THEN UrlFailure
        ELSE IF \E i \in DOMAIN port : port[i] \notin Digit THEN UrlFailure
        ELSE IF port # <<>> /\ DigitsToNat(port) > 65535 THEN UrlFailure
        ELSE [ok |-> TRUE, scheme |-> scheme, special |-> special,
              host |-> ToLower(host),
              port |-> IF port = <<>> \/ (special /\ DigitsToNat(port) = DefaultPort(scheme))
                       THEN <<>>
                       ELSE NatToDigits(DigitsToNat(port)),
              pathname |-> IF special /\ PathOf(tail) = <<>> THEN <<"/">> ELSE PathOf(tail),
              search |-> SearchOf(tail)]

\* new URL(text): a failure when it throws, else the parts origin and hostname read
ParseURL(text) ==
    LET n == RunLen(text, SchemeChar)
    IN  IF text = <<>> \/ Head(text) \notin Alpha THEN UrlFailure
        ELSE IF n >= Len(text) \/ text[n + 1] # ":" THEN UrlFailure
        ELSE
          LET scheme  == ToLower(SubSeq(text, 1, n))
              special == scheme \in {S_http, S_https}
              rest    == From(text, n + 2)
              slashes == RunLen(rest, {"/"})
          IN  IF special
              THEN LET after == From(rest, slashes + 1)
                       stop  == FindChar(after, AuthorityEnd, 1)
                   IN  ParseAuthority(SubSeq(after, 1, stop - 1), From(after, stop), scheme, TRUE)
              ELSE IF slashes >= 2
              THEN LET after == From(rest, 3)
                       stop  == FindChar(after, AuthorityEnd, 1)
                   IN  ParseAuthority(SubSeq(after, 1, stop - 1), From(after, stop), scheme, FALSE)
              ELSE [ok |-> TRUE, scheme |-> scheme, special |-> FALSE,
                    host |-> <<>>, port |-> <<>>,
                    pathname |-> PathOf(rest), search |-> SearchOf(rest)]

\* URL.prototype.origin: a tuple origin for http and https, "null" otherwise
UrlOrigin(u) ==
    IF u.special
    THEN u.scheme \o S_sep \o u.host
         \o (IF u.port = <<>> THEN <<>> ELSE <<":">> \o u.port)
    ELSE S_null

\* URL.prototype.hostname
UrlHostname(u) == u.host

(***************************************************************************)
(* Pattern matching on texts: String.prototype.match with a /g pattern     *)
(* returns the leftmost matches, each as long as possible, none            *)
(* overlapping.                                                            *)
(***************************************************************************)
S_ga4Prefix == <<"G","-">>
S_gtmPrefix == <<"G","T","M","-">>
S_uaPrefix == <<"U","A","-">>
Base64Char == AlNum \cup {"+", "/"}

\* route.ts lines 466-468, 476: {n,} of each pattern
MinGa4Suffix == 10
MinGtmSuffix == 6
MinBase64Run == 20

\* length of the match of  prefix[class]{min,}  at position i of s, or 0
PrefixRunAt(s, i, prefix, class, min) ==
    IF ~OccursAt(s, prefix, i) THEN 0
    ELSE LET run == RunLen(From(s, i + Len(prefix)), class)
         IN  IF run >= min THEN Len(prefix) + run ELSE 0

\* length of the match of  UA-[0-9]+-[0-9]+  at position i of s, or 0
UaAt(s, i) ==
    IF ~OccursAt(s, S_uaPrefix, i) THEN 0
    ELSE LET a == RunLen(From(s, i + 3), Digit)
             b == IF a > 0 /\ i + 3 + a <= Len(s) /\ s[i + 3 + a] = "-"
                  THEN RunLen(From(s, i + 4 + a), Digit)
                  ELSE 0
         IN  IF b > 0 THEN 3 + a + 1 + b ELSE 0

\* length of the match of the named pattern at position i of s, or 0
MatchAt(kind, s, i) ==
    CASE kind = "ga4" -> PrefixRunAt(s, i, S_ga4Prefix, UpperDigit, MinGa4Suffix)
      [] kind = "gtm" -> PrefixRunAt(s, i, S_gtmPrefix, UpperDigit, MinGtmSuffix)
      [] kind = "base64" -> PrefixRunAt(s, i, <<>>, Base64Char, MinBase64Run)
      [] kind = "ua" -> UaAt(s, i)

\* s.match(pattern) || [] for a /g pattern, scanning from position i
RECURSIVE MatchAllFrom(_, _, _)
MatchAllFrom(kind, s, i) ==
    IF i > Len(s) THEN <<>>
    ELSE LET n == MatchAt(kind, s, i)
         IN  IF n > 0
             THEN <<SubSeq(s, i, i + n - 1)>> \o MatchAllFrom(kind, s, i + n)
             ELSE MatchAllFrom(kind, s, i + 1)

MatchAll(kind, s) == MatchAllFrom(kind, s, 1)

\* Array.from(new Set(list)): first occurrences, in order
RECURSIVE Unique(_)
Unique(list) ==
    IF list = <<>> THEN <<>>
    ELSE LET init == Unique(SubSeq(list, 1, Len(list) - 1))
             last == list[Len(list)]
         IN  IF last \in Range(init) THEN init ELSE Append(init, last)

\* [...a, ...b, ...] of a list of lists
RECURSIVE Flatten(_)
Flatten(lists) ==
    IF lists = <<>> THEN <<>> ELSE Head(lists) \o Flatten(Tail(lists))

(***************************************************************************)
(* atob on a run of base64 characters (no padding, no whitespace): it      *)
(* throws when the length is 1 modulo 4 and otherwise yields the bytes.    *)
(* Bytes are rendered as characters for - 0-9 = A-Z a-z & and as "~" for   *)
(* any other byte, which no pattern applied to decoded text mentions.      *)
(***************************************************************************)
Base64Seq == UpperSeq \o LowerSeq \o DigitSeq \o <<"+", "/">>

Sextet(c) == IndexIn(Base64Seq, c) - 1

ByteChar(b) ==
    IF b >= 65 /\ b <= 90 THEN UpperSeq[b - 64]
    ELSE IF b >= 97 /\ b <= 122 THEN LowerSeq[b - 96]
    ELSE IF b >= 48 /\ b <= 57 THEN DigitSeq[b - 47]
    ELSE IF b = 45 THEN "-"
    ELSE IF b = 61 THEN "="
    ELSE IF b = 38 THEN "&"
    ELSE "~"

RECURSIVE DecodeBase64(_)
DecodeBase64(s) ==
    IF Len(s) >= 4
    THEN LET n == Sextet(s[1]) * 262144 + Sextet(s[2]) * 4096
                  + Sextet(s[3]) * 64 + Sextet(s[4])
         IN  <<ByteChar(n \div 65536), ByteChar((n \div 256) % 256), ByteChar(n % 256)>>
             \o DecodeBase64(From(s, 5))
    ELSE IF Len(s) = 3
    THEN LET n == (Sextet(s[1]) * 4096 + Sextet(s[2]) * 64 + Sextet(s[3])) \div 4
         IN  <<ByteChar(n \div 256), ByteChar(n % 256)>>
    ELSE IF Len(s) = 2
    THEN <<ByteChar((Sextet(s[1]) * 64 + Sextet(s[2])) \div 16)>>
    ELSE <<>>

\* try { atob(str) } catch { }: ok is FALSE when atob throws
Atob(s) ==
    IF Len(s) % 4 = 1 THEN [ok |-> FALSE, text |-> <<>>]
    ELSE [ok |-> TRUE, text |-> DecodeBase64(s)]

(***************************************************************************)
(* Signal extraction from the page's HTML, route.ts lines 465-490.         *)
(***************************************************************************)
\* Array.from(new Set(html.match(ga4Regex) || []))
Ga4MatchesHtml(html) == Unique(MatchAll("ga4", html))

\* Array.from(new Set(html.match(gtmRegex) || []))
GtmMatchesHtml(html) == Unique(MatchAll("gtm", html))

\* Array.from(new Set(html.match(uaRegex) || []))
UaMatchesHtml(html) == Unique(MatchAll("ua", html))

\* html.match(base64Pattern) || []
PotentialBase64(html) == MatchAll("base64", html)

\* the GTM ids of every candidate that atob decodes, in order (lines 478-485)
DecodedGtmIds(html) ==
    LET cands == PotentialBase64(html)
    IN  Flatten([i \in DOMAIN cands |->
                   IF Atob(cands[i]).ok THEN MatchAll("gtm", Atob(cands[i]).text)
                   ELSE <<>>])

\* the ids of line 487 without the Set
UniqueGtmIdsAll(html) == GtmMatchesHtml(html) \o DecodedGtmIds(html)

\* Array.from(new Set([...gtmMatchesHtml, ...decodedGtmIds]))
UniqueGtmIds(html) == Unique(GtmMatchesHtml(html) \o DecodedGtmIds(html))

\* new URL(targetUrl).hostname
Hostname(origin) == UrlHostname(ParseURL(origin))

\* the values lines 471-487 compute from the page's text
Extract(html) ==
    [html |-> html,
     ga4MatchesHtml |-> Ga4MatchesHtml(html),
     gtmMatchesHtml |-> GtmMatchesHtml(html),
     uaMatchesHtml |-> UaMatchesHtml(html),
     decodedGtmIds |-> DecodedGtmIds(html),
     uniqueGtmIds |-> UniqueGtmIds(html)]

\* hostname.split('.').slice(-2).join('.')
RootDomain(hostname) ==
    LET dots == { i \in DOMAIN hostname : hostname[i] = "." }
    IN  IF Cardinality(dots) < 2 THEN hostname
        ELSE LET last == CHOOSE i \in dots : \A j \in dots : j <= i
                 prev == CHOOSE i \in dots \ {last} : \A j \in dots \ {last} : j <= i
             IN  From(hostname, prev + 1)

(***************************************************************************)
(* Deep scan of one GTM container script, route.ts lines 505-545.          *)
(***************************************************************************)
S_serverContainerUrl ==
    <<"s","e","r","v","e","r","_","c","o","n","t","a","i","n","e","r","_","u","r","l">>
S_gCollect == <<"/","g","/","c","o","l","l","e","c","t">>
S_googleAnalytics ==
    <<"g","o","o","g","l","e","-","a","n","a","l","y","t","i","c","s",".","c","o","m">>

Quote == {"\"", "'"}
\* \s, of the characters the texts use
RegexSpace == {" ", "\n", "\t"}

Max(set) == CHOOSE x \in set : \A y \in set : y <= x

\* the length of the longest prefix of s with no character of class
RECURSIVE RunLenNot(_, _)
RunLenNot(s, class) ==
    IF s # <<>> /\ Head(s) \notin class THEN 1 + RunLenNot(Tail(s), class) ELSE 0

\* gtmJs.match(/[a-zA-Z0-9.-]+\.<rootDomain>/gi) || []: in each run of the
\* class, from its start to the end of the last ".<rootDomain>" of the run
RECURSIVE FirstPartyFrom(_, _, _)
FirstPartyFrom(s, dotRoot, i) ==
    IF i > Len(s) THEN <<>>
    ELSE IF s[i] \notin HostChar THEN FirstPartyFrom(s, dotRoot, i + 1)
    ELSE LET e  == i + RunLen(From(s, i), HostChar) - 1
             ks == { k \in (i + 1)..e : OccursAt(ToLower(s), dotRoot, k) }
         IN  IF ks = {} THEN FirstPartyFrom(s, dotRoot, e + 1)
             ELSE <<SubSeq(s, i, Max(ks) + Len(dotRoot) - 1)>>
                  \o FirstPartyFrom(s, dotRoot, Max(ks) + Len(dotRoot))

FirstPartySubdomains(gtmJs, rootDomain) ==
    FirstPartyFrom(gtmJs, <<".">> \o ToLower(rootDomain), 1)

\* the capture of  server_container_url["']?\s*[:,]\s*["']([^"']+)["']  (flag i)
\* when the keyword stands at position i of s, else <<>>
SgtmValueAt(s, i) ==
    LET j  == i + Len(S_serverContainerUrl)
        j1 == IF j <= Len(s) /\ s[j] \in Quote THEN j + 1 ELSE j
        j2 == j1 + RunLen(From(s, j1), RegexSpace)
        j3 == j2 + 1 + RunLen(From(s, j2 + 1), RegexSpace)
        n  == RunLenNot(From(s, j3 + 1), Quote)
    IN  IF /\ OccursAt(ToLower(s), S_serverContainerUrl, i)
           /\ j2 <= Len(s) /\ s[j2] \in {":", ","}
           /\ j3 <= Len(s) /\ s[j3] \in Quote
           /\ n >= 1
           /\ j3 + n + 1 <= Len(s)
        THEN SubSeq(s, j3 + 1, j3 + n)
        ELSE <<>>

\* gtmJs.match(sGtmValuePattern): the capture of the leftmost match, or <<>>
SgtmMatch(gtmJs) ==
    LET hits == { i \in DOMAIN gtmJs : SgtmValueAt(gtmJs, i) # <<>> }
    IN  IF hits = {} THEN <<>>
        ELSE SgtmValueAt(gtmJs, CHOOSE i \in hits : \A k \in hits : i <= k)

\* gtmJs.match(/["']?([^"']+)["']?\/g\/collect/i): the capture of the leftmost
\* match, or <<>>.  In the first run of characters other than quotes that
\* allows a match, the capture is the whole run when a quote and /g/collect
\* follow it, else the run up to its last /g/collect.
RECURSIVE CollectFrom(_, _)
CollectFrom(s, i) ==
    IF i > Len(s) THEN <<>>
    ELSE IF s[i] \in Quote THEN CollectFrom(s, i + 1)
    ELSE LET e  == i + RunLenNot(From(s, i), Quote) - 1
             ks == { k \in (i + 1)..e : OccursAt(ToLower(s), S_gCollect, k) }
         IN  IF e < Len(s) /\ OccursAt(ToLower(s), S_gCollect, e + 2)
             THEN SubSeq(s, i, e)
             ELSE IF ks # {} THEN SubSeq(s, i, Max(ks) - 1)
             ELSE CollectFrom(s, e + 1)

CollectMatch(gtmJs) == CollectFrom(gtmJs, 1)

\* lines 513-545: whether this container sets containerSignalsFound
ContainerSignals(gtmJs, hostname, rootDomain) ==
    \/ \E i \in DOMAIN FirstPartySubdomains(gtmJs, rootDomain) :
          FirstPartySubdomains(gtmJs, rootDomain)[i] # hostname
    \/ /\ Includes(gtmJs, S_serverContainerUrl) \/ Includes(gtmJs, S_gCollect)
       /\ \/ /\ SgtmMatch(gtmJs) # <<>>
             /\ Includes(SgtmMatch(gtmJs), rootDomain)
             /\ ~Includes(SgtmMatch(gtmJs), hostname)
          \/ /\ CollectMatch(gtmJs) # <<>>
             /\ Includes(CollectMatch(gtmJs), rootDomain)
             /\ ~Includes(CollectMatch(gtmJs), hostname)
             /\ ~Includes(CollectMatch(gtmJs), S_googleAnalytics)

\* gtmJs.match(/G-[A-Z0-9]{10,}/g) || []
InnerGa4(gtmJs) == MatchAll("ga4", gtmJs)

\* gtmJs.match(/UA-[0-9]+-[0-9]+/g) || []
InnerUa(gtmJs) == MatchAll("ua", gtmJs)

(***************************************************************************)
(* The loader-script heuristic of the earlier revision, part_000 lines     *)
(* 143-177 (route.ts lines 153-202).  The last handler of route.ts has no  *)
(* counterpart of it.                                                      *)
(***************************************************************************)
S_script == <<"<","s","c","r","i","p","t">>
S_srcEq == <<"s","r","c","=">>
S_gtmJs == <<"g","o","o","g","l","e","t","a","g","m","a","n","a","g","e","r",".","c","o","m","/","g","t","m",".","j","s">>
S_analyticsJs == <<"g","o","o","g","l","e","-","a","n","a","l","y","t","i","c","s",".","c","o","m","/","a","n","a","l","y","t","i","c","s",".","j","s">>
S_gtm == <<"g","t","m">>
S_dotJs == <<".","j","s">>
S_id == <<"i","d">>
S_st == <<"s","t">>
MinLoaderName == 8

\* the capture of  <script[^>]+src=["']([^"']+)["'][^>]*>  (flags gi) when the
\* tag opens at position i and src= stands at position k, else <<>>
ScriptSrcAt(s, i, k) ==
    LET n == RunLenNot(From(s, k + 5), Quote)
    IN  IF /\ OccursAt(ToLower(s), S_script, i)
           /\ k >= i + 8
           /\ k < FindChar(s, {">"}, i + 7)
           /\ OccursAt(ToLower(s), S_srcEq, k)
           /\ k + 4 <= Len(s) /\ s[k + 4] \in Quote
           /\ n >= 1
           /\ k + 5 + n <= Len(s)
           /\ FindChar(s, {">"}, k + 6 + n) <= Len(s)
        THEN SubSeq(s, k + 5, k + 4 + n)
        ELSE <<>>

\* every src the pattern captures, scanning from position i
RECURSIVE ScriptSrcsFrom(_, _)
ScriptSrcsFrom(s, i) ==
    IF i > Len(s) THEN <<>>
    ELSE LET ks == { k \in DOMAIN s : ScriptSrcAt(s, i, k) # <<>> }
         IN  IF ks = {} THEN ScriptSrcsFrom(s, i + 1)
             ELSE LET src == ScriptSrcAt(s, i, Max(ks))
                  IN  <<src>> \o ScriptSrcsFrom(s, FindChar(s, {">"}, Max(ks) + 6 + Len(src)) + 1)

ScriptSrcs(html) == ScriptSrcsFrom(html, 1)

\* relative srcs resolved against the origin (part_000 lines 162-167)
AbsoluteSrc(src, origin) ==
    IF StartsWith(src, <<"/">>) THEN origin \o src
    ELSE IF ~StartsWith(src, S_http) THEN origin \o <<"/">> \o src
    ELSE src

\* URLSearchParams.has(name): some &-separated part of the query is named name
RECURSIVE HasParam(_, _)
HasParam(search, name) ==
    IF search = <<>> THEN FALSE
    ELSE LET amp  == FindChar(search, {"&"}, 1)
             part == SubSeq(search, 1, amp - 1)
         IN  \/ part # <<>> /\ SubSeq(part, 1, FindChar(part, {"="}, 1) - 1) = name
             \/ HasParam(From(search, amp + 1), name)

\* pathname.match(/\/[a-zA-Z0-9]{8,}\.js/)
HasLoaderName(pathname) ==
    \E i \in DOMAIN pathname :
        /\ pathname[i] = "/"
        /\ RunLen(From(pathname, i + 1), AlNum) >= MinLoaderName
        /\ OccursAt(pathname, S_dotJs, i + 1 + RunLen(From(pathname, i + 1), AlNum))

\* part_000 lines 158-177, for one src
LoaderLike(src, origin) ==
    LET u == ParseURL(AbsoluteSrc(src, origin))
    IN  /\ ~Includes(src, S_gtmJs)
        /\ ~Includes(src, S_analyticsJs)
        /\ u.ok
        /\ Includes(u.host, RootDomain(Hostname(origin)))
        /\ \/ HasParam(u.search, S_id)
           \/ HasParam(u.search, S_st)
           \/ Includes(u.pathname, S_gtm)
           \/ HasLoaderName(u.pathname)

\* part_000 lines 156-177
SameOriginScriptFound(html, origin) ==
    \E i \in DOMAIN ScriptSrcs(html) : LoaderLike(ScriptSrcs(html)[i], origin)

(***************************************************************************)
(* URL normalisation, route.ts lines 341-355.                              *)
(***************************************************************************)
\* let targetUrl = url.trim(); if (!targetUrl.startsWith('http')) prepend https://
WithProtocol(u) ==
    LET t == Trim(u)
    IN  IF ~StartsWith(t, S_http) THEN S_httpsPrefix \o t ELSE t

\* try { targetUrl = new URL(targetUrl).origin } catch { 400 Invalid URL format }
\* a normaliser that keeps an unparsable text as it is and lets the fetch fail
NormalizeLenient(u) ==
    LET p == ParseURL(WithProtocol(u))
    IN  [ok |-> TRUE, origin |-> IF p.ok THEN UrlOrigin(p) ELSE WithProtocol(u)]

Normalize(u) ==
    LET p == ParseURL(WithProtocol(u))
    IN  IF p.ok THEN [ok |-> TRUE, origin |-> UrlOrigin(p)]
        ELSE [ok |-> FALSE, origin |-> <<>>]

(***************************************************************************)
(* Request inputs.  Urls are the inputs of the full pipeline; NormInputs   *)
(* (prefix, host, port, tail) are the inputs of the normaliser alone.      *)
(***************************************************************************)
S_cacheClear == <<"c","a","c","h","e","=","c","l","e","a","r">>

U_host == <<"w",".","a",".","i","o">>
U_bypass == <<"w",".","a",".","i","o","/","?","c","a","c","h","e","=","c","l","e","a","r">>
U_root == <<"a",".","i","o">>
U_notUrl == <<"n","o","t"," ","a"," ","u","r","l">>
U_httpx == <<"h","t","t","p","x",":","/","/","w",".","a",".","i","o">>

U_bare == <<"h","t","t","p",":","/","/">>

Urls == { <<>>, U_host, U_root, U_notUrl, U_bare }

\* the inputs of requests served one after another
SeqUrls == { U_host, U_bypass, U_root, U_httpx }

NormPrefixes ==
    { <<>>, <<" ">>, S_httpPrefix, S_httpsPrefix, S_http,
      <<"h","t","t","p","x",":","/","/">>, <<"H","T","T","P",":","/","/">>,
      <<"f","t","p",":","/","/">>, <<"h","t","t","p",":">> }
NormHosts ==
    { <<>>, U_root, U_host, <<"W",".","A",".","i","o">>,
      <<"a"," ","b">>, <<"h","t","t","p","b","i","n",".","i","o">> }
NormPorts ==
    { <<>>, <<":">>, <<":","8","1">>, <<":","0","8","0">>, <<":","4","4","3">>,
      <<":","x">>, <<":","7","0","0","0","0">> }
NormTails ==
    { <<>>, <<"/">>, <<"/","p","?","x","=","1","#","f">>, <<"?","x">>, <<"#","f">>, <<" ">> }

NormInputs ==
    { p \o h \o q \o t : p \in NormPrefixes, h \in NormHosts, q \in NormPorts, t \in NormTails }

\* lines 342-355 on the inputs of the pipeline, computed once
Normalized == [u \in Urls \cup SeqUrls |-> Normalize(u)]

\* lines 342-355 on any input
NormalizedOf(u) == IF u \in DOMAIN Normalized THEN Normalized[u] ELSE Normalize(u)

\* the origins requests are normalised to
Origins == { Normalized[u].origin : u \in { v \in Urls \cup SeqUrls : Normalized[v].ok } }

\* the origins fetch accepts, and line 488 on each of them, computed once
Fetchable == [o \in Origins |-> ParseURL(o).ok]

FetchableOrigins == { o \in Origins : Fetchable[o] }

HostnameOf == [o \in FetchableOrigins |-> Hostname(o)]

Hostnames == { HostnameOf[o] : o \in FetchableOrigins }

(***************************************************************************)
(* The pages and container scripts the network may answer with.            *)
(***************************************************************************)
H_none == <<"<","h","t","m","l",">","<","/","h","t","m","l",">">>
H_ga4 == <<"g","t","a","g","(","'","c","o","n","f","i","g","'",",","'","G","-","A","B","C","D","E","F","G","H","I","J","'",")">>
H_gtm == <<"g","t","m",".","j","s","?","i","d","=","G","T","M","-","A","A","A","A","A","A","1">>
H_gtm2 == <<"G","T","M","-","A","A","A","A","A","A","1"," ","G","T","M","-","B","B","B","B","B","B","2"," ","G","T","M","-","A","A","A","A","A","A","1">>
H_b64 == <<"<","s","c","r","i","p","t"," ","s","r","c","=","'","/","l","?","d","=","a","W","Q","9","R","1","R","N","L","U","9","C","R","l","V","T","Q","z","E","m","'",">">>
H_uaGa4 == <<"U","A","-","1","2","3","4","5","-","1"," ","G","-","A","B","C","D","E","F","G","H","I","J">>
H_ua == <<"U","A","-","1","2","3","4","5","-","1">>
H_loader == <<"<","s","c","r","i","p","t"," ","s","r","c","=","\"","/","a","1","b","2","c","3","d","4",".","j","s","?","i","d","=","x","y","z","\"",">","<","/","s","c","r","i","p","t",">">>
H_loaderGa4 == <<"<","s","c","r","i","p","t"," ","s","r","c","=","\"","/","a","1","b","2","c","3","d","4",".","j","s","\"",">","<","/","s","c","r","i","p","t",">","G","-","A","B","C","D","E","F","G","H","I","J">>
H_badB64 == <<"A","A","A","A","A","A","A","A","A","A","A","A","A","A","A","A","A","A","A","A","A">>
H_gtmB64 == <<"G","T","M","-","A","A","A","A","A","A","1"," ","a","W","Q","9","R","1","R","N","L","U","9","C","R","l","V","T","Q","z","E","m">>
H_ga4Gtm == <<"G","-","A","B","C","D","E","F","G","H","I","J"," ","G","T","M","-","A","A","A","A","A","A","1">>

H_dupB64 == <<"G","T","M","-","O","B","F","U","S","C","1"," ","a","W","Q","9","R","1","R","N","L","U","9","C","R","l","V","T","Q","z","E","m">>

Htmls == { H_none, H_ga4, H_gtm, H_gtm2, H_b64, H_uaGa4, H_ua, H_loader,
           H_loaderGa4, H_badB64, H_gtmB64, H_ga4Gtm, H_dupB64 }

K_plain == <<"v","a","r"," ","a","=","1",";">>
K_ga4 == <<"\"","G","-","Z","Z","Z","Z","Z","Z","Z","Z","Z","Z","\"">>
K_ua == <<"\"","U","A","-","7","7","7","-","2","\"">>
K_sub == <<"\"","h","t","t","p","s",":","/","/","s","g","t","m",".","a",".","i","o","\"">>
K_self == <<"\"","h","t","t","p","s",":","/","/","w",".","a",".","i","o","/","x","\"">>
K_scu == <<"s","e","r","v","e","r","_","c","o","n","t","a","i","n","e","r","_","u","r","l",":","\"","h","t","t","p","s",":","/","/","a",".","i","o","/","t","\"">>
K_scuKeyword == <<"s","e","r","v","e","r","_","c","o","n","t","a","i","n","e","r","_","u","r","l">>
K_collectGa == <<"\"","h","t","t","p","s",":","/","/","w","w","w",".","g","o","o","g","l","e","-","a","n","a","l","y","t","i","c","s",".","c","o","m","/","g","/","c","o","l","l","e","c","t","\"">>
K_collect == <<"\"","h","t","t","p","s",":","/","/","a",".","i","o","/","g","/","c","o","l","l","e","c","t","\"">>

Containers == { K_plain, K_ga4, K_ua, K_sub, K_self, K_scu, K_scuKeyword,
                K_collectGa, K_collect }

\* lines 471-487 on every page, computed once
Extracted == [h \in Htmls |-> Extract(h)]

\* lines 508-545 on every script and hostname, computed once
ContainerScan ==
    [k \in Containers |->
        [h \in Hostnames |->
            [innerGa4 |-> InnerGa4(k), innerUa |-> InnerUa(k),
             signals |-> ContainerSignals(k, h, RootDomain(h))]]]

\* the pages and scripts of the full pipeline
PipelineHtmls == { H_none, H_gtm }
PipelineContainers == { K_plain, K_sub }

\* what fetch(targetUrl) may do: throw, answer non-2xx, or answer 2xx with a page.
\* fetch throws on a target that is not an http(s) URL (the origin "null").
FetchThrow == [kind |-> "throw", status |-> 0, statusText |-> "", html |-> <<>>]

FetchStatus(status, text) ==
    [kind |-> "status", status |-> status, statusText |-> text, html |-> <<>>]

FetchOk(html) == [kind |-> "ok", status |-> 200, statusText |-> "OK", html |-> html]

PageResults(origin, htmls) ==
    IF ~Fetchable[origin] THEN { FetchThrow }
    ELSE { FetchThrow, FetchStatus(403, "Forbidden"),
           FetchStatus(500, "Internal Server Error") }
         \cup { FetchOk(h) : h \in htmls }

\* what fetch of a container may do: fail (throw or non-2xx) or answer a script
ContainerFail == [ok |-> FALSE, text |-> <<>>]

ContainerResults(texts) == { ContainerFail } \cup { [ok |-> TRUE, text |-> k] : k \in texts }

(***************************************************************************)
(* Decision logic and result assembly, route.ts lines 551-577, 592-601 and *)
(* 619-633.  A message is the list of its parts; the Japanese texts of    *)
(* the source are written as their English glosses, one gloss per text.    *)
(***************************************************************************)
\* line 564
MsgNotDetected == <<"GA4 was not detected.">>
\* line 568
MsgServerSide == <<"An advanced / server-side implementation (sGTM / Google Tag Gateway) was detected.">>
\* line 571
MsgStandard == <<"A standard GA4 or GTM implementation was detected.">>
\* line 576
MsgUaWarning == <<"UA tags remain.">>
\* line 438
MsgForbidden == <<"The site you entered is out of scope for measurement.">>
\* line 462
MsgFailedToFetch(statusText) == <<"Failed to fetch URL: ", statusText>>
\* line 636
MsgErrorFetching == <<"Error fetching URL: ", "fetch failed">>
\* line 316
MsgUrlRequired == <<"URL is required">>
\* line 352
MsgInvalidUrl == <<"Invalid URL format">>

\* null
Null == <<>>

\* list[0] || null
FirstOrNull(list) == IF list = <<>> THEN Null ELSE list[1]

\* the locals of the analysis before the page has been read
NoLoc ==
    [html |-> <<>>, ga4MatchesHtml |-> <<>>, gtmMatchesHtml |-> <<>>,
     uaMatchesHtml |-> <<>>, decodedGtmIds |-> <<>>, uniqueGtmIds |-> <<>>,
     idx |-> 1, containerSignalsFound |-> FALSE,
     ga4IdsFromContainers |-> <<>>, uaIdsFromContainers |-> <<>>]

\* the locals once the page has been read, the deep scan not yet begun
LocOf(ex) ==
    [html |-> ex.html, ga4MatchesHtml |-> ex.ga4MatchesHtml,
     gtmMatchesHtml |-> ex.gtmMatchesHtml, uaMatchesHtml |-> ex.uaMatchesHtml,
     decodedGtmIds |-> ex.decodedGtmIds, uniqueGtmIds |-> ex.uniqueGtmIds,
     idx |-> 1, containerSignalsFound |-> FALSE,
     ga4IdsFromContainers |-> <<>>, uaIdsFromContainers |-> <<>>]

HasGa4Direct(l) == Len(l.ga4MatchesHtml) > 0

HasGa4Gtm(l) == Len(l.ga4IdsFromContainers) > 0

HasGtm(l) == Len(l.uniqueGtmIds) > 0

AllGa4Ids(l) == Unique(l.ga4MatchesHtml \o l.ga4IdsFromContainers)

AllUaIds(l) == Unique(l.uaMatchesHtml \o l.uaIdsFromContainers)

HasUa(l) == Len(AllUaIds(l)) > 0

\* let isSgtm = false; if (containerSignalsFound) isSgtm = true
IsSgtm(l) == l.containerSignalsFound

\* a scoring that tests the standard tier before the server-side tier
ScoreStandardFirst(l) ==
    IF HasGa4Direct(l) \/ HasGa4Gtm(l) \/ HasGtm(l) THEN 3
    ELSE IF IsSgtm(l) THEN 4
    ELSE 2

\* a scoring that counts GA4 ids only, not GTM ids
ScoreGa4Only(l) ==
    IF IsSgtm(l) THEN 4
    ELSE IF HasGa4Direct(l) \/ HasGa4Gtm(l) THEN 3
    ELSE 2

\* lines 563-572
Score(l) ==
    IF IsSgtm(l) THEN 4
    ELSE IF HasGa4Direct(l) \/ HasGa4Gtm(l) \/ HasGtm(l) THEN 3
    ELSE 2

\* a message that carries the UA warning only when something was detected
StatusMessageWarnDetected(l) ==
    IF IsSgtm(l) THEN MsgServerSide \o (IF HasUa(l) THEN MsgUaWarning ELSE <<>>)
    ELSE IF HasGa4Direct(l) \/ HasGa4Gtm(l) \/ HasGtm(l)
    THEN MsgStandard \o (IF HasUa(l) THEN MsgUaWarning ELSE <<>>)
    ELSE MsgNotDetected

\* lines 563-577
StatusMessage(l) ==
    (IF IsSgtm(l) THEN MsgServerSide
     ELSE IF HasGa4Direct(l) \/ HasGa4Gtm(l) \/ HasGtm(l) THEN MsgStandard
     ELSE MsgNotDetected)
    \o (IF HasUa(l) THEN MsgUaWarning ELSE <<>>)

\* the same object with the identifiers taken from the page's HTML alone
DetailsFromHtml(l) ==
    [has_ga4_direct |-> HasGa4Direct(l),
     has_ga4_gtm |-> HasGa4Gtm(l),
     has_gtm |-> HasGtm(l),
     has_ua |-> HasUa(l),
     ga4_id |-> FirstOrNull(l.ga4MatchesHtml),
     gtm_id |-> FirstOrNull(l.gtmMatchesHtml),
     ua_id |-> FirstOrNull(l.uaMatchesHtml),
     is_sgtm |-> IsSgtm(l)]

\* the object of lines 592-601 (and of 621-629)
Details(l) ==
    [has_ga4_direct |-> HasGa4Direct(l),
     has_ga4_gtm |-> HasGa4Gtm(l),
     has_gtm |-> HasGtm(l),
     has_ua |-> HasUa(l),
     ga4_id |-> FirstOrNull(AllGa4Ids(l)),
     gtm_id |-> FirstOrNull(l.uniqueGtmIds),
     ua_id |-> FirstOrNull(AllUaIds(l)),
     is_sgtm |-> IsSgtm(l)]

\* { ...details, visited_url: url }
WithVisitedUrl(details, visited) ==
    [k \in DOMAIN details \cup {"visited_url"} |->
        IF k = "visited_url" THEN visited ELSE details[k]]

Success(score, message, details) ==
    [status |-> 200, body |-> [score |-> score, message |-> message, details |-> details]]

Failure(status, message) == [status |-> status, body |-> [message |-> message]]

\* lines 619-633
FreshResponse(l, origin) ==
    Success(Score(l), StatusMessage(l), WithVisitedUrl(Details(l), origin))

(***************************************************************************)
(* The sheet.  A row is the list of cells values.get returns: timestamp,   *)
(* url, score, message, details.  JSON text is the list of the object's    *)
(* key-value pairs in the order written; a number cell reads back as its   *)
(* decimal digits.                                                         *)
(***************************************************************************)
DetailKeys == <<"has_ga4_direct", "has_ga4_gtm", "has_gtm", "has_ua",
                "ga4_id", "gtm_id", "ua_id", "is_sgtm">>
ForbiddenKeys == <<"error", "is_sgtm">>

\* a serialisation that leaves out the keys whose value is null
JsonStringifyDefined(keys, object) ==
    LET IsDefined(k) == ~(k \in {"ga4_id", "gtm_id", "ua_id"} /\ object[k] = Null)
        kept == SelectSeq(keys, IsDefined)
    IN  [i \in DOMAIN kept |-> <<kept[i], object[kept[i]]>>]

\* JSON.stringify(object), its keys in insertion order
JsonStringify(keys, object) == [i \in DOMAIN keys |-> <<keys[i], object[keys[i]]>>]

\* JSON.parse(text)
JsonParse(text) ==
    [k \in { text[i][1] : i \in DOMAIN text } |->
        text[Max({ i \in DOMAIN text : text[i][1] = k })][2]]

Timestamp == <<"timestamp">>

\* line 609: [timestamp, targetUrl, score, statusMessage, detailsJson]
FreshRow(l, origin) ==
    <<Timestamp, origin, NatToDigits(Score(l)), StatusMessage(l),
      JsonStringify(DetailKeys, Details(l))>>

\* line 454: [timestamp, targetUrl, 0, statusMessage, {error, is_sgtm}]
ForbiddenRow(origin) ==
    <<Timestamp, origin, NatToDigits(0), MsgForbidden,
      JsonStringify(ForbiddenKeys, [error |-> "403 Forbidden", is_sgtm |-> FALSE])>>

\* (rowList[1] || "").replace(/\/$/, "")
StripTrailingSlash(s) ==
    IF s # <<>> /\ s[Len(s)] = "/" THEN SubSeq(s, 1, Len(s) - 1) ELSE s

\* !isNaN(Number(cell)) for a cell of the row, absent cells being undefined
IsNumberCell(row, i) ==
    /\ i <= Len(row)
    /\ \A k \in DOMAIN row[i] : row[i][k] \in Digit

\* lines 385-393: the (1-based) cells of score, message and details
ColumnIndexes(row) ==
    IF Len(row) > 7 /\ IsNumberCell(row, 7) THEN <<7, 8, 9>>
    ELSE IF Len(row) > 5 /\ IsNumberCell(row, 5) THEN <<5, 6, 7>>
    ELSE <<3, 4, 5>>

\* row[i] || fallback
CellOr(row, i, fallback) ==
    IF i <= Len(row) /\ row[i] # <<>> THEN row[i] ELSE fallback

\* a lookup that takes the last row whose url holds the origin's root domain
SameSiteRowIndex(rows, origin) ==
    LET hits == { i \in DOMAIN rows :
                    Includes(rows[i][2], RootDomain(HostnameOf[origin])) }
    IN  IF hits = {} THEN 0 ELSE Max(hits)

\* a lookup that passes over the rows of score 0
ScoredRowIndex(rows, origin) ==
    LET hits == { i \in DOMAIN rows :
                    /\ StripTrailingSlash(rows[i][2]) = origin
                    /\ rows[i][3] # NatToDigits(0) }
    IN  IF hits = {} THEN 0 ELSE Max(hits)

\* a lookup that takes the first row of the origin
FirstRowIndex(rows, origin) ==
    LET hits == { i \in DOMAIN rows : StripTrailingSlash(rows[i][2]) = origin }
    IN  IF hits = {} THEN 0 ELSE CHOOSE i \in hits : \A j \in hits : i <= j

\* lines 376-379: [...rows].reverse().find(row => row url === normalizedUrl)
LatestRowIndex(rows, origin) ==
    LET hits == { i \in DOMAIN rows : StripTrailingSlash(rows[i][2]) = origin }
    IN  IF hits = {} THEN 0 ELSE Max(hits)

\* lines 401-408
CachedResponse(row) ==
    LET idx == ColumnIndexes(row)
    IN  Success(DigitsToNat(CellOr(row, idx[1], <<>>)),
                CellOr(row, idx[2], <<>>),
                WithVisitedUrl(JsonParse(CellOr(row, idx[3], <<>>)), row[2]))

(***************************************************************************)
(* The page (page.tsx).  handleCheck posts the url and keeps the answer;   *)
(* the result card renders the fields of result.details it reads.  The     *)
(* labels are English glosses of the Japanese ones.                        *)
(***************************************************************************)
\* object.key ? ... : ...  with a boolean flag: a field the object does not
\* have reads as undefined, which is falsy
Truthy(object, key) == IF key \in DOMAIN object THEN object[key] ELSE FALSE

\* page.tsx lines 40-50: the state the page keeps of a response
HandleCheck(response) ==
    IF response.status \in 200..299
    THEN [result |-> response.body, error |-> Null]
    ELSE [result |-> Null,
          error |-> IF response.body.message # <<>> THEN response.body.message
                    ELSE IF response.status = 429
                         THEN <<"The usage limit has been reached.">>
                         ELSE <<"An error occurred. Please try again.">>]

\* page.tsx lines 111-133: the three items of the result card
DetailsGrid(result) ==
    [ga4 |-> IF Truthy(result.details, "has_ga4") THEN "detected" ELSE "not detected",
     gtm |-> IF Truthy(result.details, "has_gtm") THEN "detected" ELSE "not detected",
     sgtm |-> IF Truthy(result.details, "is_sgtm")
              THEN "possible (Proxy/sGTM)" ELSE "not detected"]

(***************************************************************************)
(* State.                                                                  *)
(***************************************************************************)
NoResp == [status |-> 0, body |-> [message |-> <<>>]]

\* how a call to the sheet ended
Outcome(throws) == IF throws THEN "throw" ELSE "ok"

NoFx == [lookups |-> <<>>, pageFetches |-> <<>>, containerFetches |-> <<>>, appends |-> <<>>]

VARIABLES
    configured,  \* clientEmail && privateKey && spreadsheetId (lines 320-322)
    store,       \* the sheet's rows, oldest first
    pc,          \* pc[r]: where request r stands
    url,         \* url[r]: the body's url
    targetUrl,   \* targetUrl[r]: the normalised origin
    loc,         \* loc[r]: the locals of the analysis (lines 465-495)
    resp,        \* resp[r]: the response returned
    fx           \* fx[r]: the outbound calls request r has made, with their answers

vars == <<configured, store, pc, url, targetUrl, loc, resp, fx>>

Init ==
    /\ configured \in BOOLEAN
    /\ store = <<>>
    /\ pc = [r \in Reqs |-> "idle"]
    /\ url = [r \in Reqs |-> <<>>]
    /\ targetUrl = [r \in Reqs |-> <<>>]
    /\ loc = [r \in Reqs |-> NoLoc]
    /\ resp = [r \in Reqs |-> NoResp]
    /\ fx = [r \in Reqs |-> NoFx]

\* lines 311-355: the body is read, the url checked and normalised
StartWith(r, u) ==
    /\ pc[r] = "idle"
    /\ url' = [url EXCEPT ![r] = u]
    /\ IF u = <<>>
       THEN /\ resp' = [resp EXCEPT ![r] = Failure(400, MsgUrlRequired)]
            /\ pc' = [pc EXCEPT ![r] = "done"]
            /\ UNCHANGED targetUrl
       ELSE IF ~NormalizedOf(u).ok
       THEN /\ resp' = [resp EXCEPT ![r] = Failure(400, MsgInvalidUrl)]
            /\ pc' = [pc EXCEPT ![r] = "done"]
            /\ UNCHANGED targetUrl
       ELSE /\ targetUrl' = [targetUrl EXCEPT ![r] = NormalizedOf(u).origin]
            /\ pc' = [pc EXCEPT ![r] = IF configured THEN "lookup" ELSE "fetch"]
            /\ UNCHANGED resp
    /\ UNCHANGED <<configured, store, loc, fx>>

Start(r) == \E u \in Urls : StartWith(r, u)

\* lines 357-414: values.get answers (or throws), the latest row of the origin
\* is served unless the url carries cache=clear
Lookup(r) ==
    /\ pc[r] = "lookup"
    /\ \E throws \in BOOLEAN :
         LET i == LatestRowIndex(store, targetUrl[r])
         IN  /\ fx' = [fx EXCEPT ![r].lookups = Append(@, Outcome(throws))]
             /\ IF ~throws /\ i > 0 /\ ~Includes(url[r], S_cacheClear)
                THEN /\ resp' = [resp EXCEPT ![r] = CachedResponse(store[i])]
                     /\ pc' = [pc EXCEPT ![r] = "done"]
                ELSE /\ pc' = [pc EXCEPT ![r] = "fetch"]
                     /\ UNCHANGED resp
    /\ UNCHANGED <<configured, store, url, targetUrl, loc>>

\* where the handler stands once the deep scan loop is left (line 551 on):
\* it awaits the append when the sheet is configured and else responds
AfterScan(r, l) ==
    IF configured
    THEN /\ pc' = [pc EXCEPT ![r] = "append"]
         /\ UNCHANGED resp
    ELSE /\ pc' = [pc EXCEPT ![r] = "done"]
         /\ resp' = [resp EXCEPT ![r] = FreshResponse(l, targetUrl[r])]

\* lines 416-496: the page fetch answers
PageFetchFrom(r, htmls) ==
    /\ pc[r] = "fetch"
    /\ \E res \in PageResults(targetUrl[r], htmls) :
         /\ fx' = [fx EXCEPT ![r].pageFetches = Append(@, res)]
         /\ CASE res.kind = "throw" ->
                   /\ resp' = [resp EXCEPT ![r] = Failure(500, MsgErrorFetching)]
                   /\ pc' = [pc EXCEPT ![r] = "done"]
                   /\ UNCHANGED loc
              [] res.kind = "status" /\ res.status = 403 /\ configured ->
                   /\ pc' = [pc EXCEPT ![r] = "log403"]
                   /\ UNCHANGED <<resp, loc>>
              [] res.kind = "status" /\ res.status = 403 /\ ~configured ->
                   /\ resp' = [resp EXCEPT ![r] = Failure(403, MsgForbidden)]
                   /\ pc' = [pc EXCEPT ![r] = "done"]
                   /\ UNCHANGED loc
              [] res.kind = "status" /\ res.status # 403 ->
                   /\ resp' = [resp EXCEPT ![r] =
                                 Failure(res.status, MsgFailedToFetch(res.statusText))]
                   /\ pc' = [pc EXCEPT ![r] = "done"]
                   /\ UNCHANGED loc
              [] res.kind = "ok" ->
                   /\ loc' = [loc EXCEPT ![r] = LocOf(Extracted[res.html])]
                   /\ IF Extracted[res.html].uniqueGtmIds # <<>>
                      THEN /\ pc' = [pc EXCEPT ![r] = "scan"]
                           /\ UNCHANGED resp
                      ELSE AfterScan(r, LocOf(Extracted[res.html]))
    /\ UNCHANGED <<configured, store, url, targetUrl>>

PageFetch(r) == PageFetchFrom(r, PipelineHtmls)

\* a 403 branch that answers what it logs: score 0 with the message
LogForbiddenScored(r) ==
    /\ pc[r] = "log403"
    /\ \E throws \in BOOLEAN :
         /\ fx' = [fx EXCEPT ![r].appends = Append(@, Outcome(throws))]
         /\ store' = IF throws THEN store ELSE Append(store, ForbiddenRow(targetUrl[r]))
    /\ resp' = [resp EXCEPT ![r] =
                  [status |-> 403, body |-> [score |-> 0, message |-> MsgForbidden]]]
    /\ pc' = [pc EXCEPT ![r] = "done"]
    /\ UNCHANGED <<configured, url, targetUrl, loc>>

\* lines 440-460: the 403 row is appended (or the append throws), then 403
LogForbidden(r) ==
    /\ pc[r] = "log403"
    /\ \E throws \in BOOLEAN :
         /\ fx' = [fx EXCEPT ![r].appends = Append(@, Outcome(throws))]
         /\ store' = IF throws THEN store ELSE Append(store, ForbiddenRow(targetUrl[r]))
    /\ resp' = [resp EXCEPT ![r] = Failure(403, MsgForbidden)]
    /\ pc' = [pc EXCEPT ![r] = "done"]
    /\ UNCHANGED <<configured, url, targetUrl, loc>>

\* a scan whose failed fetch leaves the loop
ScanStepBreakOnFail(l, res, hostname) ==
    IF ~res.ok THEN [l EXCEPT !.idx = Len(l.uniqueGtmIds)]
    ELSE [l EXCEPT
            !.ga4IdsFromContainers = @ \o ContainerScan[res.text][hostname].innerGa4,
            !.uaIdsFromContainers = @ \o ContainerScan[res.text][hostname].innerUa,
            !.containerSignalsFound = @ \/ ContainerScan[res.text][hostname].signals]

\* the locals after the container of one id has answered (lines 504-546)
ScanStep(l, res, hostname) ==
    IF ~res.ok THEN l
    ELSE [l EXCEPT
            !.ga4IdsFromContainers = @ \o ContainerScan[res.text][hostname].innerGa4,
            !.uaIdsFromContainers = @ \o ContainerScan[res.text][hostname].innerUa,
            !.containerSignalsFound = @ \/ ContainerScan[res.text][hostname].signals]

\* lines 498-549: the container fetch of the next id answers
ContainerFetchFrom(r, texts) ==
    /\ pc[r] = "scan"
    /\ \E res \in ContainerResults(texts) :
         LET id == loc[r].uniqueGtmIds[loc[r].idx]
             l  == ScanStep(loc[r], res, HostnameOf[targetUrl[r]])
         IN  /\ fx' = [fx EXCEPT ![r].containerFetches =
                          Append(@, [id |-> id, ok |-> res.ok, text |-> res.text])]
             /\ IF l.containerSignalsFound \/ l.idx = Len(l.uniqueGtmIds)
                THEN /\ loc' = [loc EXCEPT ![r] = l]
                     /\ AfterScan(r, l)
                ELSE /\ loc' = [loc EXCEPT ![r] = [l EXCEPT !.idx = @ + 1]]
                     /\ pc' = [pc EXCEPT ![r] = "scan"]
                     /\ UNCHANGED resp
    /\ UNCHANGED <<configured, store, url, targetUrl>>

ContainerFetch(r) == ContainerFetchFrom(r, PipelineContainers)

\* an append whose failure fails the request
AppendRowOrFail(r) ==
    /\ pc[r] = "append"
    /\ \E throws \in BOOLEAN :
         /\ fx' = [fx EXCEPT ![r].appends = Append(@, Outcome(throws))]
         /\ store' = IF throws THEN store
                     ELSE Append(store, FreshRow(loc[r], targetUrl[r]))
         /\ resp' = [resp EXCEPT ![r] =
                       IF throws THEN Failure(500, MsgErrorFetching)
                       ELSE FreshResponse(loc[r], targetUrl[r])]
    /\ pc' = [pc EXCEPT ![r] = "done"]
    /\ UNCHANGED <<configured, url, targetUrl, loc>>

\* an append that looks the origin up once more and, when a row has been
\* written meanwhile, serves that row instead of appending
AppendRowUnlessPresent(r) ==
    /\ pc[r] = "append"
    /\ \E throws \in BOOLEAN :
         LET i == LatestRowIndex(store, targetUrl[r])
         IN  /\ fx' = [fx EXCEPT ![r].appends = Append(@, Outcome(throws))]
             /\ store' = IF throws \/ i > 0 THEN store
                         ELSE Append(store, FreshRow(loc[r], targetUrl[r]))
             /\ resp' = [resp EXCEPT ![r] =
                           IF ~throws /\ i > 0 THEN CachedResponse(store[i])
                           ELSE FreshResponse(loc[r], targetUrl[r])]
    /\ pc' = [pc EXCEPT ![r] = "done"]
    /\ UNCHANGED <<configured, url, targetUrl, loc>>

\* lines 579-633: the row is appended (or the append throws), then the response
AppendRow(r) ==
    /\ pc[r] = "append"
    /\ \E throws \in BOOLEAN :
         /\ fx' = [fx EXCEPT ![r].appends = Append(@, Outcome(throws))]
         /\ store' = IF throws THEN store
                     ELSE Append(store, FreshRow(loc[r], targetUrl[r]))
    /\ resp' = [resp EXCEPT ![r] = FreshResponse(loc[r], targetUrl[r])]
    /\ pc' = [pc EXCEPT ![r] = "done"]
    /\ UNCHANGED <<configured, url, targetUrl, loc>>

Next ==
    \E r \in Reqs :
        \/ Start(r)
        \/ Lookup(r)
        \/ PageFetch(r)
        \/ LogForbidden(r)
        \/ ContainerFetch(r)
        \/ AppendRow(r)

Spec == Init /\ [][Next]_vars

(***************************************************************************)
(* The normaliser alone, on every input of NormInputs.                     *)
(***************************************************************************)
NormStart == \E u \in NormInputs : StartWith(1, u)

NormNext == NormStart

SpecNorm == Init /\ [][NormNext]_vars

(***************************************************************************)
(* The engine alone: one request for a valid origin, every page of Htmls   *)
(* and every script of Containers.                                         *)
(***************************************************************************)
EngineStart == \E u \in {U_host, U_root} : StartWith(1, u)

EngineLookup == Lookup(1)

EnginePageFetch == PageFetchFrom(1, Htmls)

EngineLogForbidden == LogForbidden(1)

EngineContainerFetch == ContainerFetchFrom(1, Containers)

EngineAppendRow == AppendRow(1)

EngineNext ==
    \/ EngineStart
    \/ EngineLookup
    \/ EnginePageFetch
    \/ EngineLogForbidden
    \/ EngineContainerFetch
    \/ EngineAppendRow

SpecEngine == Init /\ [][EngineNext]_vars

(***************************************************************************)
(* Progress.  The handler goes on whenever a call it awaits answers.  The  *)
(* calls to the sheet are taken to answer; fetch(targetUrl) (lines         *)
(* 417-434) and fetch of gtm.js (lines 500-503) are given no signal and no *)
(* timeout, so whether they answer is the remote host's choice and no      *)
(* fairness is stated for them.                                            *)
(***************************************************************************)
SpecLive ==
    /\ Spec
    /\ \A r \in Reqs :
          /\ WF_vars(Lookup(r))
          /\ WF_vars(LogForbidden(r))
          /\ WF_vars(AppendRow(r))

(***************************************************************************)
(* Requests served one after another: the next POST arrives once the last  *)
(* one has been answered, the sheet keeping what was appended.  No request *)
(* is admitted once the sheet holds more than MaxRows rows.                *)
(***************************************************************************)
MaxRows == 2

SeqNextRequest ==
    /\ pc[1] = "done"
    /\ Len(store) <= MaxRows
    /\ pc' = [pc EXCEPT ![1] = "idle"]
    /\ url' = [url EXCEPT ![1] = <<>>]
    /\ targetUrl' = [targetUrl EXCEPT ![1] = <<>>]
    /\ loc' = [loc EXCEPT ![1] = NoLoc]
    /\ resp' = [resp EXCEPT ![1] = NoResp]
    /\ fx' = [fx EXCEPT ![1] = NoFx]
    /\ UNCHANGED <<configured, store>>

SeqStart == \E u \in SeqUrls : StartWith(1, u)

SeqLookup == Lookup(1)

SeqPageFetch == PageFetch(1)

SeqLogForbidden == LogForbidden(1)

SeqContainerFetch == ContainerFetch(1)

SeqAppendRow == AppendRow(1)

SeqNext ==
    \/ SeqNextRequest
    \/ SeqStart
    \/ SeqLookup
    \/ SeqPageFetch
    \/ SeqLogForbidden
    \/ SeqContainerFetch
    \/ SeqAppendRow

SpecSeq == Init /\ [][SeqNext]_vars

(***************************************************************************)
(* What the claims speak of.                                               *)
(***************************************************************************)
S_httpColonSlashes == <<"h","t","t","p",":","/","/">>
S_httpsColonSlashes == <<"h","t","t","p","s",":","/","/">>

\* request r has been answered
Done(r) == pc[r] = "done"

\* request r has been answered with a success: HTTP 200 and a score
Succeeded(r) == Done(r) /\ resp[r].status = 200 /\ "score" \in DOMAIN resp[r].body

\* request r has been answered with a freshly computed result
Fresh(r) == Succeeded(r) /\ fx[r].pageFetches # <<>>

\* the answer of the page fetch of request r
PageResult(r) == fx[r].pageFetches[Len(fx[r].pageFetches)]

\* the container scripts the deep scan of request r has read
ScannedTexts(r) ==
    { fx[r].containerFetches[i].text :
        i \in { j \in DOMAIN fx[r].containerFetches : fx[r].containerFetches[j].ok } }

\* some scanned container of request r holds a server-side signal
ServerSideSignal(r) ==
    \E k \in ScannedTexts(r) :
        ContainerScan[k][HostnameOf[targetUrl[r]]].signals

\* the page of request r holds a GTM id in base64 only
ObfuscatedGtm(r) ==
    /\ Extracted[loc[r].html].gtmMatchesHtml = <<>>
    /\ Extracted[loc[r].html].decodedGtmIds # <<>>

LoaderTable ==
    [h \in Htmls |-> [o \in FetchableOrigins |-> SameOriginScriptFound(h, o)]]

\* the page of request r holds no GA4 id and no GTM id but a loader-like
\* script of its root domain
LoaderFallback(r) ==
    /\ Extracted[loc[r].html].ga4MatchesHtml = <<>>
    /\ Extracted[loc[r].html].uniqueGtmIds = <<>>
    /\ LoaderTable[loc[r].html][targetUrl[r]]

\* a GA4 id in the page or in a scanned container, or a GTM id in the page
Ga4OrGtmPresent(r) ==
    \/ Extracted[loc[r].html].ga4MatchesHtml # <<>>
    \/ \E k \in ScannedTexts(r) : InnerGa4(k) # <<>>
    \/ Extracted[loc[r].html].uniqueGtmIds # <<>>

\* a UA id in the page or in a scanned container
UaFound(r) ==
    \/ Extracted[loc[r].html].uaMatchesHtml # <<>>
    \/ \E k \in ScannedTexts(r) : MatchAll("ua", k) # <<>>

\* the phrase of a score's tier
TierPhrase(score) ==
    CASE score = 4 -> MsgServerSide
      [] score = 3 -> MsgStandard
      [] score = 2 -> MsgNotDetected
      [] OTHER -> <<>>

\* the trimmed input begins with neither http:// nor https://
MissingScheme(u) ==
    /\ ~StartsWith(Trim(u), S_httpColonSlashes)
    /\ ~StartsWith(Trim(u), S_httpsColonSlashes)

\* an origin of scheme http or https: nothing but host and port after ://
IsHttpOrigin(o) ==
    \E pre \in { S_httpColonSlashes, S_httpsColonSlashes } :
        /\ StartsWith(o, pre)
        /\ Len(o) > Len(pre)
        /\ \A i \in (Len(pre) + 1)..Len(o) : o[i] \notin {"/", "?", "#"}

(***************************************************************************)
(* The claims.                                                             *)
(***************************************************************************)

\* C1: every response that is a success (HTTP 200 with a score), computed or
\* served from a row of the sheet, has a score of 2, 3 or 4, whatever requests
\* came before, those whose page fetch answered 403 included.
C1_SuccessScoreInRange ==
    \A r \in Reqs : Succeeded(r) => resp[r].body.score \in {2, 3, 4}

\* C2: when a scanned container of a fresh analysis holds a server-side signal,
\* the score is 4, whatever GA4 and GTM ids the page holds.
C2_SignalScores4 ==
    \A r \in Reqs : Fresh(r) /\ ServerSideSignal(r) => resp[r].body.score = 4

C2_Witness ==
    \E r \in Reqs :
        /\ Fresh(r) /\ ServerSideSignal(r)
        /\ loc[r].html = H_ga4Gtm
        /\ K_scu \in ScannedTexts(r)
        /\ resp[r].body.score = 4

\* C3: a page whose only GTM id is one decoded from base64 scores 4, whatever
\* the scan of that id's container finds.
C3_ObfuscatedScores4 ==
    \A r \in Reqs : Fresh(r) /\ ObfuscatedGtm(r) => resp[r].body.score = 4

\* C4: a page with no GA4 id and no GTM id that references a loader-like script
\* of its own root domain scores 4.
C4_LoaderScores4 ==
    \A r \in Reqs : Fresh(r) /\ LoaderFallback(r) => resp[r].body.score = 4

\* C5: with no server-side signal, no obfuscated GTM id and no loader fallback,
\* the score is 3 exactly when a GA4 id (in the page or in a scanned container)
\* or a GTM id is present and 2 otherwise; a page whose only identifier is one
\* direct GA4 id has has_ga4_direct true, has_gtm false and score 3.
C5_StandardOrNone ==
    \A r \in Reqs :
        Fresh(r) /\ ~ServerSideSignal(r) /\ ~ObfuscatedGtm(r) /\ ~LoaderFallback(r) =>
            /\ resp[r].body.score = (IF Ga4OrGtmPresent(r) THEN 3 ELSE 2)
            /\ ( /\ Len(Extracted[loc[r].html].ga4MatchesHtml) = 1
                 /\ Extracted[loc[r].html].uniqueGtmIds = <<>>
                 /\ Extracted[loc[r].html].uaMatchesHtml = <<>> ) =>
                    /\ resp[r].body.details.has_ga4_direct
                    /\ ~resp[r].body.details.has_gtm
                    /\ resp[r].body.score = 3

C5_Witness ==
    \E r \in Reqs :
        /\ Fresh(r) /\ ~ServerSideSignal(r)
        /\ loc[r].html = H_gtm
        /\ ScannedTexts(r) = { K_plain }
        /\ resp[r].body.score = 3

\* C6: the message of a fresh result is the phrase of its score's tier, followed
\* by the UA warning exactly when a UA id was found in the page or in a scanned
\* container.
C6_MessageOfTier ==
    \A r \in Reqs :
        Fresh(r) =>
            /\ resp[r].body.score \in {2, 3, 4}
            /\ resp[r].body.message =
                 TierPhrase(resp[r].body.score) \o (IF UaFound(r) THEN MsgUaWarning ELSE <<>>)

C6_Witness ==
    \E r \in Reqs :
        /\ Fresh(r)
        /\ loc[r].html = H_ua
        /\ resp[r].body.score = 2
        /\ resp[r].body.message = MsgNotDetected \o MsgUaWarning

\* C7: an input that, trimmed, begins with neither http:// nor https:// is
\* parsed with https:// prepended, and when that parses the origin of that
\* https URL is the normalised origin.
C7_MissingSchemeGetsHttps ==
    \A r \in Reqs :
        pc[r] # "idle" /\ url[r] # <<>> /\ MissingScheme(url[r])
        /\ ParseURL(S_httpsColonSlashes \o Trim(url[r])).ok =>
            targetUrl[r] = UrlOrigin(ParseURL(S_httpsColonSlashes \o Trim(url[r])))

\* C8: the origin of every input that passes normalisation has scheme http or
\* https and no path, query or fragment.
C8_OriginIsHttpOrigin ==
    \A r \in Reqs :
        pc[r] # "idle" /\ url[r] # <<>> /\ resp[r] # Failure(400, MsgInvalidUrl) =>
            IsHttpOrigin(targetUrl[r])

\* C9: an input that does not parse as a URL after the scheme step is answered
\* 400 Invalid URL format, and its request has made no lookup, no page fetch,
\* no container fetch and no append.
C9_InvalidUrlNoEffects ==
    \A r \in Reqs :
        pc[r] # "idle" /\ url[r] # <<>> /\ ~ParseURL(WithProtocol(url[r])).ok =>
            /\ Done(r)
            /\ resp[r] = Failure(400, MsgInvalidUrl)
            /\ fx[r] = NoFx

C9_Witness ==
    \E r, q \in Reqs :
        /\ url[r] = U_notUrl /\ Done(r) /\ resp[r].status = 400
        /\ url[q] = U_bare /\ Done(q) /\ resp[q].status = 400
        /\ fx[r] = NoFx /\ fx[q] = NoFx

\* C10: a page fetch that answers non-2xx or throws ends the request with a
\* failure (403 with the out-of-scope message, another status with that status
\* and its text, a throw with 500 and the error), no container is fetched and
\* the response has no score.
C10_PageFailureAborts ==
    \A r \in Reqs :
        fx[r].pageFetches # <<>> /\ PageResult(r).kind # "ok" =>
            /\ fx[r].containerFetches = <<>>
            /\ pc[r] \in {"log403", "done"}
            /\ pc[r] = "log403" => PageResult(r).status = 403
            /\ Done(r) =>
                /\ "score" \notin DOMAIN resp[r].body
                /\ resp[r] =
                     (IF PageResult(r).kind = "throw" THEN Failure(500, MsgErrorFetching)
                      ELSE IF PageResult(r).status = 403 THEN Failure(403, MsgForbidden)
                      ELSE Failure(PageResult(r).status,
                                   MsgFailedToFetch(PageResult(r).statusText)))

C10_Witness ==
    \E r, q \in Reqs :
        /\ Done(r) /\ fx[r].pageFetches # <<>>
        /\ PageResult(r).kind = "status" /\ PageResult(r).status = 403
        /\ fx[r].appends = <<"ok">> /\ resp[r].status = 403
        /\ Done(q) /\ fx[q].pageFetches # <<>>
        /\ PageResult(q).kind = "status" /\ PageResult(q).status = 500
        /\ resp[q].status = 500 /\ fx[q].containerFetches = <<>>

\* the container fetches of request r that answered a script
OkFetches(r) ==
    LET IsOk(c) == c.ok IN SelectSeq(fx[r].containerFetches, IsOk)

\* the locals after the containers of a list of answers have been read
RECURSIVE ScanAll(_, _, _)
ScanAll(l, results, hostname) ==
    IF results = <<>> THEN l
    ELSE ScanAll(ScanStep(l, Head(results), hostname), Tail(results), hostname)

\* the result of the engine on an origin, a page and a list of container answers
EngineResult(origin, html, results) ==
    FreshResponse(ScanAll(LocOf(Extracted[html]), results, HostnameOf[origin]), origin)

\* C11: a failed container fetch neither ends the analysis nor keeps the
\* containers of the remaining ids from being fetched and read; the result is
\* the one of the containers that answered, score 4 when one of them holds a
\* server-side signal.
C11_FailedContainerSkipped ==
    \A r \in Reqs :
        (\E i \in DOMAIN fx[r].containerFetches : ~fx[r].containerFetches[i].ok) =>
            /\ pc[r] \in {"scan", "append", "done"}
            /\ pc[r] # "scan" =>
                  \/ Len(fx[r].containerFetches) = Len(Extracted[loc[r].html].uniqueGtmIds)
                  \/ ServerSideSignal(r)
            /\ Done(r) =>
                  /\ Fresh(r)
                  /\ resp[r] = EngineResult(targetUrl[r], loc[r].html, OkFetches(r))
                  /\ ServerSideSignal(r) => resp[r].body.score = 4

C11_Witness ==
    \E r \in Reqs :
        /\ Fresh(r)
        /\ loc[r].html = H_gtm2
        /\ Len(fx[r].containerFetches) = 2
        /\ ~fx[r].containerFetches[1].ok
        /\ fx[r].containerFetches[2].text = K_sub
        /\ resp[r].body.score = 4

\* C12: the containers fetched within one analysis are those of the page's
\* distinct GTM ids, one fetch each, in the order the ids were found, and
\* none is fetched after a container with a server-side signal has been read.
C12_OncePerIdInOrder ==
    \A r \in Reqs :
        fx[r].containerFetches # <<>> =>
            LET log == fx[r].containerFetches
                ids == Unique(Extracted[loc[r].html].gtmMatchesHtml
                              \o Extracted[loc[r].html].decodedGtmIds)
            IN  /\ Len(log) <= Len(ids)
                /\ \A i \in DOMAIN log : log[i].id = ids[i]
                /\ \A i, j \in DOMAIN log : i # j => log[i].id # log[j].id
                /\ \A i \in DOMAIN log :
                      i < Len(log) =>
                        ~(log[i].ok /\ ContainerScan[log[i].text][HostnameOf[targetUrl[r]]].signals)

C12_Witness ==
    \E r \in Reqs :
        /\ Fresh(r)
        /\ loc[r].html = H_dupB64
        /\ Len(fx[r].containerFetches) = 1
        /\ fx[r].containerFetches[1].ok

\* the url of request r carries the bypass flag
Bypass(r) == Includes(url[r], S_cacheClear)

\* request r has been answered from a row of the sheet
Cached(r) == Succeeded(r) /\ fx[r].pageFetches = <<>>

\* the rows the sheet held before request r appended, requests being served
\* one after another
RowsBefore(r) ==
    LET IsOk(o) == o = "ok"
    IN  SubSeq(store, 1, Len(store) - Len(SelectSeq(fx[r].appends, IsOk)))

\* the sheet held a row of the origin of request r before the request appended
HadRecord(r) == \E i \in DOMAIN RowsBefore(r) : RowsBefore(r)[i][2] = targetUrl[r]

\* row i is the last row of the sheet written for origin o
LastRowOf(i, o) ==
    /\ i \in DOMAIN store
    /\ store[i][2] = o
    /\ \A j \in DOMAIN store : j > i => store[j][2] # o

\* score, message and details of a response are those written in a row
AnswersRow(response, row) ==
    /\ response.status = 200
    /\ NatToDigits(response.body.score) = row[3]
    /\ response.body.message = row[4]
    /\ response.body.details = WithVisitedUrl(JsonParse(row[5]), row[2])

\* C13: with requests served one after another, a request without the bypass
\* flag whose lookup answers is served from the last row appended for its
\* origin; a request with the flag is never served from the sheet, analyses
\* afresh and appends, and its row is then the last of its origin, the one
\* the next lookup serves.
C13_LatestWinsWithBypass ==
    \A r \in Reqs :
        /\ Cached(r) =>
              /\ ~Bypass(r)
              /\ \E i \in DOMAIN store :
                    LastRowOf(i, targetUrl[r]) /\ AnswersRow(resp[r], store[i])
        /\ ( /\ pc[r] \notin {"idle", "lookup"} /\ targetUrl[r] # <<>>
             /\ ~Bypass(r) /\ fx[r].lookups = <<"ok">> /\ HadRecord(r) ) => Cached(r)
        /\ Bypass(r) /\ Done(r) /\ resp[r].status = 200 =>
              /\ Fresh(r)
              /\ configured => Len(fx[r].appends) = 1
              /\ fx[r].appends = <<"ok">> =>
                    /\ LastRowOf(Len(store), targetUrl[r])
                    /\ AnswersRow(resp[r], store[Len(store)])

C13_Witness ==
    \E r \in Reqs :
        /\ Cached(r)
        /\ Len(store) = 2
        /\ store[1][2] = targetUrl[r] /\ store[2][2] = targetUrl[r]
        /\ store[1][3] # store[2][3]
        /\ AnswersRow(resp[r], store[2])

\* C14: a fresh result is the engine's result on the origin, the page and the
\* container answers of its request and nothing else, so two fresh analyses
\* of one origin with the same page and the same container answers give the
\* same score, message and details, whatever other requests did meanwhile.
C14_EngineIdempotent ==
    /\ \A r \in Reqs :
          Fresh(r) =>
            resp[r] = EngineResult(targetUrl[r], PageResult(r).html, fx[r].containerFetches)
    /\ \A r, q \in Reqs :
          ( /\ Fresh(r) /\ Fresh(q)
            /\ targetUrl[r] = targetUrl[q]
            /\ PageResult(r).html = PageResult(q).html
            /\ fx[r].containerFetches = fx[q].containerFetches ) =>
                /\ resp[r].body.score = resp[q].body.score
                /\ resp[r].body.message = resp[q].body.message
                /\ resp[r].body.details = resp[q].body.details

C14_Witness ==
    \E r, q \in Reqs :
        /\ r # q /\ Fresh(r) /\ Fresh(q)
        /\ targetUrl[r] = targetUrl[q]
        /\ PageResult(r).html = H_gtm /\ PageResult(q).html = H_gtm
        /\ fx[r].containerFetches = fx[q].containerFetches
        /\ K_sub \in ScannedTexts(r)
        /\ Len(store) = 2
        /\ resp[r].body = resp[q].body

\* C15: every request that has arrived is answered in the end, also when the
\* target host or the GTM host never answers.
C15_EveryRequestAnswered == \A r \in Reqs : (pc[r] # "idle") ~> (pc[r] = "done")

\* C16: when the page holds a direct GTM id, no id decoded from base64 joins
\* the GTM ids and no container is fetched for a decoded id.
C16_Base64OnlyWithoutDirectGtm ==
    \A r \in Reqs :
        ( /\ fx[r].pageFetches # <<>> /\ PageResult(r).kind = "ok"
          /\ Extracted[PageResult(r).html].gtmMatchesHtml # <<>> ) =>
            /\ loc[r].uniqueGtmIds = Extracted[PageResult(r).html].gtmMatchesHtml
            /\ \A i \in DOMAIN fx[r].containerFetches :
                  \E j \in DOMAIN Extracted[PageResult(r).html].gtmMatchesHtml :
                      fx[r].containerFetches[i].id = Extracted[PageResult(r).html].gtmMatchesHtml[j]

\* the response of request r when no row of the sheet is served to it: the
\* one its own url, page answer and container answers determine
AloneResponse(r) ==
    IF url[r] = <<>> THEN Failure(400, MsgUrlRequired)
    ELSE IF ~ParseURL(WithProtocol(url[r])).ok THEN Failure(400, MsgInvalidUrl)
    ELSE IF PageResult(r).kind = "throw" THEN Failure(500, MsgErrorFetching)
    ELSE IF PageResult(r).kind = "status" /\ PageResult(r).status = 403
    THEN Failure(403, MsgForbidden)
    ELSE IF PageResult(r).kind = "status"
    THEN Failure(PageResult(r).status, MsgFailedToFetch(PageResult(r).statusText))
    ELSE EngineResult(targetUrl[r], PageResult(r).html, fx[r].containerFetches)

\* C17: a request whose origin no other request shares is answered as when it
\* runs alone, whatever the steps of the requests for other origins and
\* however they interleave with its own.
C17_OtherOriginsIndependent ==
    \A r \in Reqs :
        ( /\ Done(r) /\ targetUrl[r] # <<>>
          /\ \A q \in Reqs \ {r} : targetUrl[q] # targetUrl[r] ) =>
            /\ fx[r].pageFetches # <<>>
            /\ resp[r] = AloneResponse(r)

C17_Witness ==
    \E r, q \in Reqs :
        /\ Fresh(r) /\ Fresh(q)
        /\ targetUrl[r] # targetUrl[q]
        /\ fx[r].lookups = <<"ok">> /\ fx[q].lookups = <<"ok">>
        /\ Len(store) = 2 /\ store[1][2] = targetUrl[q] /\ store[2][2] = targetUrl[r]
        /\ resp[r].body.score = 4 /\ resp[q].body.score = 2

\* C18: a lookup that throws is a cache miss, also when the sheet holds a row
\* of the origin, and the response after a page fetch is the same whether the
\* append throws or not.
C18_StoreFailureHarmless ==
    \A r \in Reqs :
        /\ fx[r].lookups = <<"throw">> =>
              /\ pc[r] \in {"fetch", "scan", "append", "log403", "done"}
              /\ Done(r) => fx[r].pageFetches # <<>>
        /\ Done(r) /\ fx[r].pageFetches # <<>> => resp[r] = AloneResponse(r)

C18_Witness ==
    \E r \in Reqs :
        /\ Fresh(r) /\ ~Bypass(r) /\ HadRecord(r)
        /\ fx[r].lookups = <<"throw">> /\ fx[r].appends = <<"throw">>
        /\ resp[r].body.score = 4

\* C19: when a fresh analysis has appended its row and another request for the
\* same origin is served from the sheet, no third request having written for
\* that origin, the served response has the score, the message and the
\* details, visited_url included, of the fresh response.
C19_CacheHitReproduces ==
    \A r, q \in Reqs :
        ( /\ Fresh(r) /\ fx[r].appends = <<"ok">>
          /\ Cached(q) /\ targetUrl[q] = targetUrl[r]
          /\ \A o \in Reqs \ {r, q} : targetUrl[o] # targetUrl[r] ) =>
            /\ resp[q].body.score = resp[r].body.score
            /\ resp[q].body.message = resp[r].body.message
            /\ resp[q].body.details = resp[r].body.details

C19_Witness ==
    \E r, q \in Reqs :
        /\ Fresh(r) /\ fx[r].appends = <<"ok">>
        /\ Cached(q) /\ targetUrl[q] = targetUrl[r]
        /\ resp[r].body.score = 4
        /\ resp[r].body.details.gtm_id # Null
        /\ resp[r].body.details.ga4_id = Null
        /\ resp[q].body = resp[r].body

\* C20: with requests served one after another and a lookup that does not
\* throw, a request without the bypass flag for an origin the sheet holds a
\* row of is answered with no page fetch, no container fetch and no append.
C20_HitHasNoEffects ==
    \A r \in Reqs :
        ( /\ pc[r] \notin {"idle", "lookup"} /\ targetUrl[r] # <<>>
          /\ ~Bypass(r)
          /\ \A i \in DOMAIN fx[r].lookups : fx[r].lookups[i] = "ok"
          /\ HadRecord(r) ) =>
            /\ Done(r) /\ resp[r].status = 200
            /\ fx[r].pageFetches = <<>>
            /\ fx[r].containerFetches = <<>>
            /\ fx[r].appends = <<>>

C20_Witness ==
    \E r \in Reqs :
        /\ Done(r) /\ ~Bypass(r) /\ HadRecord(r)
        /\ fx[r] = [NoFx EXCEPT !.lookups = <<"ok">>]
        /\ Len(store) = 2
        /\ resp[r].status = 200

\* no call of the sheet has thrown so far, in any request
StoreNeverFailed ==
    \A r \in Reqs :
        /\ \A i \in DOMAIN fx[r].lookups : fx[r].lookups[i] = "ok"
        /\ \A i \in DOMAIN fx[r].appends : fx[r].appends[i] = "ok"

\* the rows of the sheet written for origin o
RecordsOf(o) == { i \in DOMAIN store : store[i][2] = o }

\* C21: when no request carries the bypass flag and no call of the sheet has
\* thrown, the sheet holds at most one row per origin, also when requests for
\* the same origin run concurrently.
C21_OneRecordPerOrigin ==
    ( /\ \A r \in Reqs : ~Bypass(r)
      /\ StoreNeverFailed ) =>
        \A o \in Origins : Cardinality(RecordsOf(o)) <= 1

\* C22: the details of every fresh result agree with its score and its
\* identifiers: is_sgtm iff the score is 4, has_gtm iff gtm_id is not null,
\* has_ua iff ua_id is not null, and has_ga4_direct or has_ga4_gtm iff ga4_id
\* is not null.
C22_DetailsConsistent ==
    \A r \in Reqs :
        Fresh(r) =>
            LET d == resp[r].body.details
            IN  /\ d.is_sgtm <=> (resp[r].body.score = 4)
                /\ d.has_gtm <=> (d.gtm_id # Null)
                /\ d.has_ua <=> (d.ua_id # Null)
                /\ (d.has_ga4_direct \/ d.has_ga4_gtm) <=> (d.ga4_id # Null)

C22_Witness ==
    \E r \in Reqs :
        /\ Fresh(r)
        /\ ~resp[r].body.details.has_ga4_direct
        /\ resp[r].body.details.has_ga4_gtm
        /\ resp[r].body.details.ga4_id # Null
        /\ resp[r].body.details.has_gtm
        /\ ~resp[r].body.details.is_sgtm

\* C23: the page renders what the endpoint reports: whenever a success
\* response says a GA4 id was found directly in the HTML, the result card
\* shows the GA4 direct-implementation item as detected.
C23_PageShowsDirectGa4 ==
    \A r \in Reqs :
        ( /\ Succeeded(r)
          /\ Truthy(resp[r].body.details, "has_ga4_direct") ) =>
            DetailsGrid(HandleCheck(resp[r]).result).ga4 = "detected"

====
